---- MODULE Spec2Model ----
(***************************************************************************)
(* ag3tools: the tool registry, the execution engine, the context-scoped   *)
(* token aggregation (llm_instrumentation) and the cost logger.            *)
(*                                                                         *)
(* Callers: "main" is the main thread of the process; "t1" and "t2" are    *)
(* logical tasks it spawns (an OS thread starts with an empty              *)
(* contextvars context, an asyncio task with a copy of its creator's).     *)
(* Dictionaries are heap objects: a context variable holds a reference,    *)
(* and copying a context copies references, not dictionaries.              *)
(* A behaviour follows one invocation per caller from the call to the      *)
(* value or exception the caller receives.                                 *)
(***************************************************************************)
EXTENDS Integers, Sequences, FiniteSets, TLC

\* ---------------------------------------------------------------- bounds
MaxCalls == 2      \* completion calls the implementation main invokes makes
MaxTaskCalls == 1  \* completion calls the implementation a task invokes makes
MaxOuter == 2      \* capture operations / completion calls outside any invocation
MaxOps == 7        \* operations on the capture API when it is used alone
MaxDepth == 3      \* scopes open at once when the capture API is used alone
MaxEnsure == 2     \* calls of ensure_openai_patched by one thread
MaxRegs == 3       \* registrations made after the tools registered at import
MaxLogs == 3       \* direct calls of log_cost
MaxLines == 3      \* lines in the date files that the statistics scan
MaxTime == 4       \* seconds the clock of the cache advances

\* ------------------------------------------------------------ vocabulary
Main == "main"
Tasks == {"t1", "t2"}
Callers == {Main} \cup Tasks
Models == {"gpt-4o-mini", "gpt-4o"}
NoRef == <<>>                      \* ContextVar unset / Python None

\* names a caller may ask for; "nope" is never registered
ToolNames == {"echo", "fetch", "ask", "chat"}
AllNames == ToolNames \cup {"nope"}
\* keyword arguments, as the set of field names supplied
KwargsSet == {{}, {"text"}}

\* one context for the whole process, as a module-level dict would be
TaskCtxShared(c) == <<"task", Main>>
\* the context of caller c, and the context copy asyncio.to_thread runs
\* a synchronous implementation in
TaskCtx(c) == <<"task", c>>
WorkerCtx(c) == <<"worker", c>>
Ctxs == {TaskCtx(c) : c \in Callers} \cup {WorkerCtx(c) : c \in Callers}

VARIABLES
  registry,          \* _REGISTRY: name -> ToolSpec
  COST_LOG_ENABLED,  \* settings.COST_LOG_ENABLED
  patched,           \* llm_instrumentation._patched
  heap,              \* dict objects: reference -> <<[model, in, out, who]>>
  tok,               \* _token_context, per context: a reference or NoRef
  prev,              \* _prev_context, per context: a reference or NoRef
  pc,                \* per caller: "idle", "fn", "logging", "done"
  call,              \* per caller: the invocation in progress
  impl,              \* per caller: how the implementation ended
  own,               \* per caller: the completion calls its implementation made
  phase,             \* per caller: 0, 1 = in the try body, 2 = in the except handler
  pending,           \* per caller: entries of agg not yet passed to log_cost
  outcome,           \* per caller: what the caller of invoke/execute receives
  cnt,               \* per caller: how often each step ran in this invocation
  legacy,            \* lines of settings.COST_LOG_PATH appended so far
  dated,             \* the date-partitioned log: date -> lines of that date's file
  nouter,            \* capture operations made outside invocations
  stack,             \* what each open scope of main should hold, outermost first
  ret,               \* the last stop_capture() of main: what it returned and what it
                     \* should have, or NoRet
  installs,          \* how many wrappers are stacked on Completions.create
  lock,              \* llm_instrumentation._lock: the caller holding it, or ""
  ep,                \* per caller: its position inside ensure_openai_patched
  resp,              \* the last completion call of main through the wrapper: what
                     \* the wrapper handed back, or NoResp
  regs,              \* the arguments of every register_tool call so far, in order
  arg,               \* the argument of the last direct call of a function
  res,               \* what that call returned
  cache              \* cache.py: CACHE_ENABLED, _store, the clock, and lastset

vars == <<registry, COST_LOG_ENABLED, patched, heap, tok, prev, pc, call,
          impl, own, phase, pending, outcome, cnt, legacy, dated, nouter,
          stack, ret, installs, lock, ep, resp, regs, arg, res, cache>>

\* the variables that only the specifications of single components use
Probe == <<stack, ret, lock, ep, resp, regs, arg, res, cache>>

\* ------------------------------------------------------- dict operations
\* agg.get(model, (0, 0)) on a dict kept as its items in insertion order
HasKey(d, m) == \E i \in 1..Len(d) : d[i].model = m
IndexOf(d, m) == CHOOSE i \in 1..Len(d) : d[i].model = m
DictGet(d, m) ==
  IF HasKey(d, m) THEN <<d[IndexOf(d, m)].in, d[IndexOf(d, m)].out>> ELSE <<0, 0>>
WhoOf(d, m) == IF HasKey(d, m) THEN d[IndexOf(d, m)].who ELSE {}

\* an aggregation that keeps the last call's counts only
DictAddOverwrites(d, m, in_t, out_t, w) ==
  LET e == [model |-> m, in |-> in_t, out |-> out_t, who |-> WhoOf(d, m) \cup {w}]
  IN IF HasKey(d, m) THEN [d EXCEPT ![IndexOf(d, m)] = e] ELSE Append(d, e)

\* agg[model] = (cur_in + in_t, cur_out + out_t); who records whose calls
\* the entry sums (not program state: no code reads it)
DictAdd(d, m, in_t, out_t, w) ==
  LET cur == DictGet(d, m)
      e == [model |-> m, in |-> cur[1] + in_t, out |-> cur[2] + out_t,
            who |-> WhoOf(d, m) \cup {w}]
  IN IF HasKey(d, m) THEN [d EXCEPT ![IndexOf(d, m)] = e] ELSE Append(d, e)

\* the prompt/completion token counts a completion call by w may report
\* (w: the caller whose implementation makes the call, or Outer)
Outer == "outer"
Usages(w) ==
  CASE w = "t1" -> {<<100, 50>>}
    [] w = "t2" -> {<<200, 75>>}
    [] w = Main -> {<<100, 20>>, <<123, 45>>}
    [] OTHER -> {<<7, 3>>}

\* ------------------------------------------------------ llm_instrumentation
\* The contextvars state as one value, so that operations compose:
\* tok and prev per context, and the dict objects they refer to.
Store == [heap |-> heap, tok |-> tok, prev |-> prev]

\* a dict object no context refers to any more is garbage
Reachable(S) == ({S.tok[x] : x \in Ctxs} \cup {S.prev[x] : x \in Ctxs}) \ {NoRef}
Collect(S) == [S EXCEPT !.heap = [r \in Reachable(S) |-> S.heap[r]]]

\* a reference for a dict created on behalf of caller c
NewRef(S, c) ==
  <<c, CHOOSE k \in 1..(Cardinality(DOMAIN S.heap) + 1) :
         /\ <<c, k>> \notin DOMAIN S.heap
         /\ \A j \in 1..(k - 1) : <<c, j>> \in DOMAIN S.heap>>

\* _token_context.get({}): the context's dict, or a fresh empty one
CurrentDict(S, x) == IF S.tok[x] # NoRef THEN S.heap[S.tok[x]] ELSE <<>>

\* a start_capture that saves the current dict and binds nothing
start_capture_unbound(S, x, c) ==
  Collect([S EXCEPT !.prev[x] = IF CurrentDict(S, x) # <<>> THEN S.tok[x] ELSE NoRef,
                    !.tok[x] = NoRef])
\* start_capture(): save the current dict if it is non-empty, bind a fresh one
start_capture(S, x, c) ==
  LET current == CurrentDict(S, x)
      r == NewRef(S, c)
  IN Collect([heap |-> (r :> <<>>) @@ S.heap,
              tok |-> [S.tok EXCEPT ![x] = r],
              prev |-> [S.prev EXCEPT ![x] = IF current # <<>> THEN S.tok[x] ELSE NoRef]])

\* stop_capture(): the state it leaves; _token_context.set(prev or {})
stop_capture(S, x, c) ==
  LET p == S.prev[x]
      keep == p # NoRef /\ S.heap[p] # <<>>
      r == NewRef(S, c)
  IN Collect([heap |-> IF keep THEN S.heap ELSE (r :> <<>>) @@ S.heap,
              tok |-> [S.tok EXCEPT ![x] = IF keep THEN p ELSE r],
              prev |-> [S.prev EXCEPT ![x] = NoRef]])

\* a stop_capture that returns the first model's entry only
stop_capture_agg_first(S, x) ==
  IF CurrentDict(S, x) = <<>> THEN <<>> ELSE <<Head(CurrentDict(S, x))>>
\* stop_capture(): the agg it returns
stop_capture_agg(S, x) == CurrentDict(S, x)

\* _wrapped_create, after the original create returned a response with usage:
\* add it to _get_agg() of the calling context; a fresh dict is dropped
wrapped_create(S, x, m, u, w) ==
  IF S.tok[x] = NoRef THEN S
  ELSE [S EXCEPT !.heap[S.tok[x]] = DictAdd(@, m, u[1], u[2], w)]

\* Completions.create with n wrappers stacked on the original: each
\* wrapper calls the one below it and then adds the response's usage
RECURSIVE create(_, _, _, _, _, _)
create(S, x, m, u, w, n) ==
  IF n = 0 THEN S ELSE wrapped_create(create(S, x, m, u, w, n - 1), x, m, u, w)

\* a worker thread that starts with an empty context, as a plain thread does
copy_context_empty(S, x, y) ==
  Collect([S EXCEPT !.tok[y] = NoRef, !.prev[y] = NoRef])
\* contextvars.copy_context(): context y becomes a copy of context x
copy_context(S, x, y) ==
  Collect([S EXCEPT !.tok[y] = S.tok[x], !.prev[y] = S.prev[x]])

\* a context that ends with its thread
drop_context(S, y) ==
  Collect([S EXCEPT !.tok[y] = NoRef, !.prev[y] = NoRef])

SetStore(S) == /\ heap' = S.heap
               /\ tok' = S.tok
               /\ prev' = S.prev

\* ------------------------------------------------------------------ cost
\* _load_pricing_data() when data/llm_costs.json is absent: the hard-coded
\* table, prices in units of 1e-10 USD (0.00000015 USD = 1500 units)
FallbackPricing ==
  [m \in {"gpt-4o-mini", "gpt-4o"} |->
     IF m = "gpt-4o-mini" THEN <<1500, 6000>> ELSE <<50000, 150000>>]

\* the table _load_pricing_data returns when the data file does not parse
ParseFailPricing ==
  [m \in {"gpt-4o-mini", "gpt-4o"} |->
     IF m = "gpt-4o-mini" THEN <<150000, 600000>> ELSE <<5000000, 15000000>>]
\* the default of pricing.get("gpt-4o-mini", (0.000015, 0.00006, "USD"))
DefaultPricing == <<150000, 600000>>

\* model names, spelled in pieces so that "x in model" can be computed
ModelNames ==
  {"gpt-4o-mini", "gpt-4o", "gpt-4", "gpt-4o-2024-08-06", "ft:gpt-4o-mini:acme",
   "gpt-4-mini", "unknown-model-xyz", "unknown"}
Spell(model) ==
  CASE model = "gpt-4o-mini" -> <<"gpt-4", "o", "-mini">>
    [] model = "gpt-4o" -> <<"gpt-4", "o">>
    [] model = "gpt-4" -> <<"gpt-4">>
    [] model = "gpt-4o-2024-08-06" -> <<"gpt-4", "o", "-2024-08-06">>
    [] model = "ft:gpt-4o-mini:acme" -> <<"ft:", "gpt-4", "o", "-mini", ":acme">>
    [] model = "gpt-4-mini" -> <<"gpt-4", "-mini">>
    [] model = "unknown-model-xyz" -> <<"unknown-model-xyz">>
    [] model = "unknown" -> <<"unknown">>
\* fragment in model (Python's substring test)
In(fragment, model) ==
  LET f == Spell(fragment)
      t == Spell(model)
  IN \E i \in 0..(Len(t) - Len(f)) : SubSeq(t, i + 1, i + Len(f)) = f

\* an estimate that tries the fragment "gpt-4o" before "gpt-4o-mini"
estimate_4o_first(pricing, model, input_tokens, output_tokens) ==
  LET fallback_model == IF In("gpt-4o", model) THEN "gpt-4o"
                        ELSE IF In("gpt-4o-mini", model) THEN "gpt-4o-mini"
                        ELSE "None"
      p == IF model \in DOMAIN pricing THEN pricing[model]
           ELSE IF fallback_model # "None" /\ fallback_model \in DOMAIN pricing
                THEN pricing[fallback_model]
           ELSE IF "gpt-4o-mini" \in DOMAIN pricing THEN pricing["gpt-4o-mini"]
           ELSE DefaultPricing
      ic == input_tokens * (p[1] \div 100)
      oc == output_tokens * (p[2] \div 100)
  IN [ic |-> ic, oc |-> oc, total |-> ic + oc, cur |-> "USD"]
\* the body of estimate_openai_cost once pricing is loaded: the entry of
\* the model; else the entry of the first fragment found in the name; else
\* gpt-4o-mini's entry or the default; prices are per 100 tokens
estimate(pricing, model, input_tokens, output_tokens) ==
  LET fallback_model == IF In("gpt-4o-mini", model) THEN "gpt-4o-mini"
                        ELSE IF In("gpt-4o", model) THEN "gpt-4o"
                        ELSE "None"
      p == IF model \in DOMAIN pricing THEN pricing[model]
           ELSE IF fallback_model # "None" /\ fallback_model \in DOMAIN pricing
                THEN pricing[fallback_model]
           ELSE IF "gpt-4o-mini" \in DOMAIN pricing THEN pricing["gpt-4o-mini"]
           ELSE DefaultPricing
      ic == input_tokens * (p[1] \div 100)
      oc == output_tokens * (p[2] \div 100)
  IN [ic |-> ic, oc |-> oc, total |-> ic + oc, cur |-> "USD"]

\* estimate_openai_cost where the data file is absent
estimate_openai_cost(model, input_tokens, output_tokens) ==
  estimate(FallbackPricing, model, input_tokens, output_tokens)

\* timestamps count half days from 2024-01-01 00:00 local time;
\* datetime.fromtimestamp(ts).strftime("%Y-%m-%d")
Dates == <<"2024-01-01", "2024-01-02", "2024-01-03">>
DateOf(ts) == Dates[(ts \div 2) + 1]
\* date=None of a CostEvent
NoDate == "None"
\* t0 = time.time() of an invocation
StartTime(c) == 1

\* _enhance_cost_event: fill in the date when it is None
enhance_cost_event(event) ==
  IF event.date = NoDate THEN [event EXCEPT !.date = DateOf(event.ts)] ELSE event

\* open(path, "a").write(line + "\n") on the file of date d
AppendTo(files, d, line) ==
  IF d \in DOMAIN files THEN [files EXCEPT ![d] = Append(@, line)]
  ELSE (d :> <<line>>) @@ files

\* the two logs as one value
Logs == [legacy |-> legacy, dated |-> dated]

\* a log_cost that names the date file after the timestamp in every case
log_cost_by_ts(L, enabled, event) ==
  IF ~enabled THEN L
  ELSE LET line == enhance_cost_event(event)
       IN [legacy |-> Append(L.legacy, line),
           dated |-> AppendTo(L.dated, DateOf(line.ts), line)]
\* log_cost(event) when every write succeeds: nothing when cost logging is
\* off; else the enhanced event goes as one line to the legacy log and to
\* the file of date_str = event.date or the date of event.ts
log_cost(L, enabled, event) ==
  IF ~enabled THEN L
  ELSE LET line == enhance_cost_event(event)
           date_str == IF line.date # "" THEN line.date ELSE DateOf(line.ts)
       IN [legacy |-> Append(L.legacy, line),
           dated |-> AppendTo(L.dated, date_str, line)]

\* the CostEvent _log_llm_costs builds for one item of agg; by and pass say
\* which invocation built it and from which of its stop_capture() results
CostEvent(tool_name, e, with_params, c, ph) ==
  LET est == estimate_openai_cost(e.model, e.in, e.out)
  IN [ts |-> StartTime(c), date |-> NoDate, tool |-> tool_name, model |-> e.model,
      input_tokens |-> e.in, output_tokens |-> e.out, currency |-> est.cur,
      input_cost |-> est.ic, output_cost |-> est.oc, total_cost |-> est.total,
      tool_params |-> IF with_params THEN <<call[c].kwargs>> ELSE <<>>,
      who |-> e.who, by |-> c, pass |-> ph]

\* fields whose value json.dumps cannot serialise (a datetime)
NonJson == {"when"}
\* json.dumps(asdict(event)) returns: tool_params is None (<<>>) or a dict of
\* JSON values; otherwise it raises TypeError
json_dumps_ok(event) ==
  \A i \in DOMAIN event.tool_params : event.tool_params[i] \cap NonJson = {}

\* ------------------------------------------------------------- registry
ToolSpec(n, tg, co) ==
  [name |-> n, tags |-> tg, coroutine |-> co, required |-> {"text"}]
InitRegistry ==
  [n \in ToolNames |->
     CASE n = "echo" -> ToolSpec(n, {}, FALSE)
       [] n = "fetch" -> ToolSpec(n, {"net"}, TRUE)
       [] n = "ask" -> ToolSpec(n, {"llm"}, FALSE)
       [] n = "chat" -> ToolSpec(n, {"llm", "docs"}, TRUE)]

\* the register_tool calls that built InitRegistry. name: <<>> when the
\* argument is omitted, else <<the name>>; fn: the function's __name__
Reg(nm, f, tg, co) == [name |-> nm, fn |-> f, tags |-> tg, coroutine |-> co]
InitRegs ==
  << Reg(<<>>, "echo", {}, FALSE), Reg(<<"fetch">>, "fetch_page", {"net"}, TRUE),
     Reg(<<"ask">>, "ask", {"llm"}, FALSE), Reg(<<>>, "chat", {"llm", "docs"}, TRUE) >>

\* a registry that keeps the first registration under a name
register_tool_first_wins(reg, r) ==
  LET tool_name == IF r.name = <<>> \/ r.name = <<"">> THEN r.fn ELSE r.name[1]
  IN reg @@ (tool_name :> ToolSpec(tool_name, r.tags, r.coroutine))
\* register_tool(name=..., tags=...)(fn): tool_name = name or fn.__name__;
\* _REGISTRY[tool_name] = ToolSpec(name=tool_name, ...)
register_tool(reg, r) ==
  LET tool_name == IF r.name = <<>> \/ r.name = <<"">> THEN r.fn ELSE r.name[1]
  IN (tool_name :> ToolSpec(tool_name, r.tags, r.coroutine)) @@ reg
\* list_tools(): the values of _REGISTRY
list_tools(reg) == {reg[n] : n \in DOMAIN reg}

\* NoSpec stands for no ToolSpec at all
NoSpec == [name |-> "", tags |-> {}, coroutine |-> FALSE, required |-> {}]
\* a registry that knows every name
RegisteredAlways(name) == TRUE
\* get_tool_spec(name) is _REGISTRY[name]: KeyError for a name that is not
\* registered, else the ToolSpec
Registered(name) == name \in DOMAIN registry
get_tool_spec(name) == IF name \in DOMAIN registry THEN registry[name] ELSE NoSpec
\* an input model that accepts anything
ValidatesAlways(spec, kwargs) == TRUE
\* spec.input_model(**kwargs) raises ValidationError on a missing field
Validates(spec, kwargs) == spec.required \subseteq kwargs
\* tracking that ignores the tags
LlmTaggedAlways(spec) == TRUE
\* the "llm" tag switches the tracking on
LlmTagged(spec) == "llm" \in spec.tags
\* an async path that calls every implementation on the event loop
OffloadedNever(mode, spec) == FALSE
\* a synchronous implementation on the async path runs in asyncio.to_thread
Offloaded(mode, spec) == mode = "async" /\ ~spec.coroutine
\* fn(model_instance) of a coroutine function on the blocking path only
\* builds the coroutine object: its body does not run
BodyRuns(mode, spec) == ~(mode = "blocking" /\ spec.coroutine)
\* the context the implementation's completion calls run in
ExecCtx(c) ==
  IF Offloaded(call[c].mode, call[c].spec) THEN WorkerCtx(c) ELSE TaskCtx(c)

\* before: what the caller's active dict held when the invocation began
\* (not program state: no code reads it)
NoCall == [api |-> "", mode |-> "", name |-> "", kwargs |-> {}, spec |-> NoSpec,
           before |-> <<>>]
\* overlap: 1 once a call was made while another caller's implementation,
\* having made calls of its own, was still running
\* to_thread: how often asyncio.to_thread was called
\* io_fail: how often log_cost raised for another reason than json.dumps
NoCnt == [validate |-> 0, patch |-> 0, start |-> 0, fn |-> 0, calls |-> 0,
          stop |-> 0, log_cost |-> 0, log_fail |-> 0, overlap |-> 0,
          to_thread |-> 0, io_fail |-> 0]

\* n: which operation of main the call was; stage: the statement of the
\* wrapper that raised, 0 when none did; out: what the caller received
NoResp == [n |-> 0, stage |-> 0, out |-> "none"]
None == <<>>
NoRet == [matched |-> FALSE, proper |-> TRUE, got |-> <<>>, want |-> <<>>]
\* cache.py at import: _store = {}. lastset is what the last cache_set of
\* each key stored, and when, since the last cache_clear (not program
\* state: no code reads it)
NoCache(enabled) ==
  [enabled |-> enabled, store |-> <<>>, now |-> 0, lastset |-> <<>>]

ProbeInit ==
  /\ cache = NoCache(TRUE)
  /\ stack = <<>>
  /\ ret = NoRet
  /\ installs = (IF patched THEN 1 ELSE 0)
  /\ lock = ""
  /\ ep = [c \in Callers |-> "out"]
  /\ resp = NoResp
  /\ regs = InitRegs
  /\ arg = None
  /\ res = None

Init ==
  /\ registry = InitRegistry
  /\ COST_LOG_ENABLED \in BOOLEAN
  /\ patched = FALSE
  /\ heap = [r \in {} |-> <<>>]
  /\ tok = [x \in Ctxs |-> NoRef]
  /\ prev = [x \in Ctxs |-> NoRef]
  /\ pc = [c \in Callers |-> "idle"]
  /\ call = [c \in Callers |-> NoCall]
  /\ impl = [c \in Callers |-> "none"]
  /\ own = [c \in Callers |-> <<>>]
  /\ phase = [c \in Callers |-> 0]
  /\ pending = [c \in Callers |-> <<>>]
  /\ outcome = [c \in Callers |-> "none"]
  /\ cnt = [c \in Callers |-> NoCnt]
  /\ legacy = <<>>
  /\ dated = <<>>
  /\ nouter = 0
  /\ ProbeInit

\* ---------------------------------------------------- execution engine
\* _log_llm_costs up to its loop: nothing when cost logging is off, else
\* stop_capture() and the items of agg to log
LogLlmCosts(S, c) ==
  IF ~COST_LOG_ENABLED
  THEN [store |-> S, agg |-> <<>>, stops |-> 0]
  ELSE [store |-> stop_capture(S, TaskCtx(c), c),
        agg |-> stop_capture_agg(S, TaskCtx(c)), stops |-> 1]

\* what leaves the try statement once _log_llm_costs has returned: the
\* result after the try body, the exception being handled after `raise`
Propagates(ph, how) ==
  IF ph = 1 THEN "result" ELSE IF how = "raised" THEN "ImplError" ELSE "LogError"

\* the try body (pass 1) or the except handler (pass 2) calls
\* _log_llm_costs; how: the implementation "returned" or "raised"; k: the
\* invocation's step counts so far
EnterLogging(c, S, ph, how, k) ==
  LET L == LogLlmCosts(S, c)
  IN /\ SetStore(L.store)
     /\ cnt' = [cnt EXCEPT ![c] = [k EXCEPT !.stop = @ + L.stops]]
     /\ phase' = [phase EXCEPT ![c] = ph]
     /\ pending' = [pending EXCEPT ![c] = L.agg]
     /\ IF L.agg = <<>>
        THEN /\ pc' = [pc EXCEPT ![c] = "done"]
             /\ outcome' = [outcome EXCEPT ![c] = Propagates(ph, how)]
        ELSE /\ pc' = [pc EXCEPT ![c] = "logging"]
             /\ UNCHANGED outcome

\* invoke_tool / invoke_tool_async (api "registry") and execute /
\* execute_async (api "engine"), up to the call of the implementation.
\* kind: a task starts as an OS thread or as an asyncio task of main.
Invoke(c, api, mode, name, kwargs, kind) ==
  /\ UNCHANGED Probe
  /\ pc[c] = "idle"
  /\ c = Main => kind = "thread"
  /\ api = "engine" => Registered(name)
  /\ LET S0 == IF c # Main /\ kind = "task"
               THEN copy_context(Store, TaskCtx(Main), TaskCtx(c)) ELSE Store
         spec == get_tool_spec(name)
         S1 == IF LlmTagged(spec) THEN start_capture(S0, TaskCtx(c), c) ELSE S0
         S2 == IF Offloaded(mode, spec)
               THEN copy_context(S1, TaskCtx(c), WorkerCtx(c)) ELSE S1
         this == [api |-> api, mode |-> mode, name |-> name, kwargs |-> kwargs,
                  spec |-> spec, before |-> CurrentDict(S0, TaskCtx(c))]
     IN /\ call' = [call EXCEPT ![c] = this]
        /\ IF ~Registered(name)
           THEN /\ pc' = [pc EXCEPT ![c] = "done"]
                /\ outcome' = [outcome EXCEPT ![c] = "KeyError"]
                /\ SetStore(S0)
                /\ UNCHANGED <<cnt, patched, installs>>
           ELSE IF ~Validates(spec, kwargs)
           THEN /\ pc' = [pc EXCEPT ![c] = "done"]
                /\ outcome' = [outcome EXCEPT ![c] = "ValidationError"]
                /\ cnt' = [cnt EXCEPT ![c].validate = 1]
                /\ SetStore(S0)
                /\ UNCHANGED <<patched, installs>>
           ELSE /\ pc' = [pc EXCEPT ![c] = "fn"]
                /\ SetStore(S2)
                /\ patched' = (patched \/ LlmTagged(spec))
                /\ installs' = (IF LlmTagged(spec) /\ ~patched THEN installs + 1 ELSE installs)
                /\ cnt' = [cnt EXCEPT ![c] =
                     [NoCnt EXCEPT !.validate = 1, !.fn = 1,
                        !.to_thread = IF Offloaded(mode, spec) THEN 1 ELSE 0,
                        !.patch = IF LlmTagged(spec) THEN 1 ELSE 0,
                        !.start = IF LlmTagged(spec) THEN 1 ELSE 0]]
                /\ UNCHANGED outcome
  /\ UNCHANGED <<registry, COST_LOG_ENABLED, impl, own, phase, pending, legacy,
                 dated, nouter>>

\* the implementation makes a completion call for model m; the response
\* reports usage u
Completion(c, m, u) ==
  /\ UNCHANGED installs
  /\ UNCHANGED Probe
  /\ pc[c] = "fn"
  /\ BodyRuns(call[c].mode, call[c].spec)
  /\ cnt[c].calls < (IF c = Main THEN MaxCalls ELSE MaxTaskCalls)
  /\ own' = [own EXCEPT ![c] = Append(@, [model |-> m, in |-> u[1], out |-> u[2]])]
  /\ cnt' = [cnt EXCEPT ![c].calls = @ + 1,
                        ![c].overlap = IF \E d \in Callers \ {c} : pc[d] = "fn" /\ own[d] # <<>>
                                       THEN 1 ELSE @]
  /\ SetStore(create(Store, ExecCtx(c), m, u, c, installs))
  /\ UNCHANGED <<registry, COST_LOG_ENABLED, patched, pc, call, impl, phase,
                 pending, outcome, legacy, dated, nouter>>

\* the store once the implementation has ended: a to_thread context is gone
AfterFn(c) ==
  IF Offloaded(call[c].mode, call[c].spec)
  THEN drop_context(Store, WorkerCtx(c)) ELSE Store

\* the implementation returns its result
FnReturn(c) ==
  /\ UNCHANGED installs
  /\ UNCHANGED Probe
  /\ pc[c] = "fn"
  /\ impl' = [impl EXCEPT ![c] = "returned"]
  /\ IF LlmTagged(call[c].spec)
     THEN EnterLogging(c, AfterFn(c), 1, "returned", cnt[c])
     ELSE /\ pc' = [pc EXCEPT ![c] = "done"]
          /\ outcome' = [outcome EXCEPT ![c] = "result"]
          /\ SetStore(AfterFn(c))
          /\ UNCHANGED <<cnt, phase, pending>>
  /\ UNCHANGED <<registry, COST_LOG_ENABLED, patched, call, own, legacy, dated,
                 nouter>>

\* the implementation raises an exception E
FnRaise(c) ==
  /\ UNCHANGED installs
  /\ UNCHANGED Probe
  /\ pc[c] = "fn"
  /\ BodyRuns(call[c].mode, call[c].spec)
  /\ impl' = [impl EXCEPT ![c] = "raised"]
  /\ IF LlmTagged(call[c].spec)
     THEN EnterLogging(c, AfterFn(c), 2, "raised", cnt[c])
     ELSE /\ pc' = [pc EXCEPT ![c] = "done"]
          /\ outcome' = [outcome EXCEPT ![c] = "ImplError"]
          /\ SetStore(AfterFn(c))
          /\ UNCHANGED <<cnt, phase, pending>>
  /\ UNCHANGED <<registry, COST_LOG_ENABLED, patched, call, own, legacy, dated,
                 nouter>>

\* the CostEvent of the next item of agg
NextEvent(c) ==
  CostEvent(call[c].spec.name, Head(pending[c]), call[c].api = "engine", c, cnt[c].stop)

\* log_cost(event) returns: with cost logging on it has appended the event
\* to both logs
LogCostOk(c) ==
  /\ UNCHANGED installs
  /\ UNCHANGED Probe
  /\ pc[c] = "logging"
  /\ json_dumps_ok(NextEvent(c))
  /\ legacy' = log_cost(Logs, COST_LOG_ENABLED, NextEvent(c)).legacy
  /\ dated' = log_cost(Logs, COST_LOG_ENABLED, NextEvent(c)).dated
  /\ cnt' = [cnt EXCEPT ![c].log_cost = @ + 1]
  /\ pending' = [pending EXCEPT ![c] = Tail(@)]
  /\ IF Tail(pending[c]) = <<>>
     THEN /\ pc' = [pc EXCEPT ![c] = "done"]
          /\ outcome' = [outcome EXCEPT ![c] = Propagates(phase[c], impl[c])]
     ELSE UNCHANGED <<pc, outcome>>
  /\ UNCHANGED <<registry, COST_LOG_ENABLED, patched, heap, tok, prev, call, impl,
                 own, phase, nouter>>

\* log_cost(event) raises: before it wrote anything (json.dumps on
\* tool_params it cannot serialise, or the legacy file cannot be written)
\* or, mid = TRUE, after the legacy line when the dated file fails.
\* In the try body the handler runs _log_llm_costs again and re-raises.
LogCostFails(c, mid) ==
  /\ UNCHANGED installs
  /\ UNCHANGED Probe
  /\ pc[c] = "logging"
  /\ COST_LOG_ENABLED
  /\ mid => json_dumps_ok(NextEvent(c))
  /\ legacy' = IF mid THEN log_cost(Logs, TRUE, NextEvent(c)).legacy ELSE legacy
  /\ UNCHANGED dated
  /\ LET k == [cnt[c] EXCEPT !.log_cost = @ + 1, !.log_fail = @ + 1,
                            !.io_fail = IF json_dumps_ok(NextEvent(c)) THEN @ + 1 ELSE @]
     IN IF phase[c] = 1
        THEN EnterLogging(c, Store, 2, "returned", k)
        ELSE /\ pc' = [pc EXCEPT ![c] = "done"]
             /\ outcome' = [outcome EXCEPT ![c] = "LogError"]
             /\ pending' = [pending EXCEPT ![c] = <<>>]
             /\ cnt' = [cnt EXCEPT ![c] = k]
             /\ UNCHANGED <<heap, tok, prev, phase>>
  /\ UNCHANGED <<registry, COST_LOG_ENABLED, patched, call, impl, own, nouter>>

\* a handler that catches cancellation as well
CaughtAlways(exc) == TRUE
\* `except Exception:` catches exc; asyncio.CancelledError derives from
\* BaseException and passes through
Caught(exc) == exc # "CancelledError"

\* the task is cancelled while execute_async / invoke_tool_async awaits the
\* implementation: CancelledError is raised at the await. A worker thread
\* started by to_thread runs on, its context alive.
Cancel(c) ==
  /\ UNCHANGED installs
  /\ UNCHANGED Probe
  /\ pc[c] = "fn"
  /\ call[c].mode = "async"
  /\ impl' = [impl EXCEPT ![c] = "cancelled"]
  /\ IF LlmTagged(call[c].spec) /\ Caught("CancelledError")
     THEN EnterLogging(c, Store, 2, "raised", cnt[c])
     ELSE /\ pc' = [pc EXCEPT ![c] = "done"]
          /\ outcome' = [outcome EXCEPT ![c] = "CancelledError"]
          /\ UNCHANGED <<heap, tok, prev, cnt, phase, pending>>
  /\ UNCHANGED <<registry, COST_LOG_ENABLED, patched, call, own, legacy, dated,
                 nouter>>

\* ------------------------------------- code of the main caller itself
OuterIdle == pc[Main] = "idle" /\ nouter < MaxOuter
OuterRest == <<registry, COST_LOG_ENABLED, pc, call, impl, own, phase, pending,
               outcome, cnt, legacy, dated>>

\* ensure_openai_patched() with the client library importable
EnsurePatched ==
  /\ UNCHANGED Probe
  /\ pc[Main] = "idle"
  /\ ~patched
  /\ patched' = TRUE
  /\ installs' = installs + 1
  /\ UNCHANGED <<heap, tok, prev, nouter>>
  /\ UNCHANGED OuterRest

OuterStart ==
  /\ UNCHANGED installs
  /\ UNCHANGED Probe
  /\ OuterIdle
  /\ SetStore(start_capture(Store, TaskCtx(Main), Main))
  /\ nouter' = nouter + 1
  /\ UNCHANGED patched
  /\ UNCHANGED OuterRest

OuterStop ==
  /\ UNCHANGED installs
  /\ UNCHANGED Probe
  /\ OuterIdle
  /\ SetStore(stop_capture(Store, TaskCtx(Main), Main))
  /\ nouter' = nouter + 1
  /\ UNCHANGED patched
  /\ UNCHANGED OuterRest

OuterCompletion(m, u) ==
  /\ UNCHANGED installs
  /\ UNCHANGED Probe
  /\ OuterIdle
  /\ patched
  /\ SetStore(create(Store, TaskCtx(Main), m, u, Outer, installs))
  /\ nouter' = nouter + 1
  /\ UNCHANGED patched
  /\ UNCHANGED OuterRest

\* ------------------------------------------------------ specifications
Apis == {"registry", "engine"}
Modes == {"blocking", "async"}

\* one caller: the main thread, after capture operations of its own,
\* invokes a tool
Next ==
  \/ \E api \in Apis, mode \in Modes, name \in AllNames, kwargs \in KwargsSet :
       Invoke(Main, api, mode, name, kwargs, "thread")
  \/ \E m \in Models, u \in Usages(Main) : Completion(Main, m, u)
  \/ FnReturn(Main)
  \/ FnRaise(Main)
  \/ LogCostOk(Main)
  \/ \E mid \in BOOLEAN : LogCostFails(Main, mid)
  \/ EnsurePatched
  \/ OuterStart
  \/ OuterStop
  \/ \E m \in Models, u \in Usages(Outer) : OuterCompletion(m, u)

Spec == Init /\ [][Next]_vars

\* the same, with a caller that may cancel the invocation it awaits
NextCancel ==
  \/ Next
  \/ Cancel(Main)

SpecCancel == Init /\ [][NextCancel]_vars

\* two concurrent callers: main has started t1 and t2 (OS threads or asyncio
\* tasks); each invokes an LLM-tagged tool through the API the program
\* uses (the execution engine), and their steps interleave. Main started
\* them either right away or inside a capture scope of its own that
\* holds usage: ensure_openai_patched(); start_capture(); one completion call
LlmNames == {n \in ToolNames : LlmTagged(InitRegistry[n])}
Kinds == {"thread", "task"}

InitConcurrent ==
  /\ registry = InitRegistry
  /\ COST_LOG_ENABLED \in BOOLEAN
  /\ patched \in BOOLEAN
  /\ LET E == [heap |-> [r \in {} |-> <<>>], tok |-> [x \in Ctxs |-> NoRef],
               prev |-> [x \in Ctxs |-> NoRef]]
         S == IF patched
              THEN wrapped_create(start_capture(E, TaskCtx(Main), Main),
                                  TaskCtx(Main), "gpt-4o", <<7, 3>>, Outer)
              ELSE E
     IN heap = S.heap /\ tok = S.tok /\ prev = S.prev
  /\ pc = [c \in Callers |-> "idle"]
  /\ call = [c \in Callers |-> NoCall]
  /\ impl = [c \in Callers |-> "none"]
  /\ own = [c \in Callers |-> <<>>]
  /\ phase = [c \in Callers |-> 0]
  /\ pending = [c \in Callers |-> <<>>]
  /\ outcome = [c \in Callers |-> "none"]
  /\ cnt = [c \in Callers |-> NoCnt]
  /\ legacy = <<>>
  /\ dated = <<>>
  /\ nouter = 0
  /\ ProbeInit

NextConcurrent ==
  \/ \E c \in Tasks, mode \in Modes, name \in LlmNames, kind \in Kinds :
       Invoke(c, "engine", mode, name, {"text"}, kind)
  \/ \E c \in Tasks, m \in Models : \E u \in Usages(c) : Completion(c, m, u)
  \/ \E c \in Tasks : FnReturn(c)
  \/ \E c \in Tasks : FnRaise(c)
  \/ \E c \in Tasks : LogCostOk(c)
  \/ \E c \in Tasks : LogCostFails(c, FALSE)

SpecConcurrent == InitConcurrent /\ [][NextConcurrent]_vars

\* the two invocation paths side by side: thread t1 calls invoke_tool /
\* invoke_tool_async, thread t2 calls execute / execute_async of the engine
\* with get_tool_spec(name); each chooses its tool, arguments and what its
\* implementation does
PathApi(c) == IF c = "t1" THEN "registry" ELSE "engine"
PathNames == {"echo", "ask", "chat"}
PathKwargs == {{"text"}, {"text", "when"}}

NextPaths ==
  \/ \E c \in Tasks, mode \in Modes, name \in PathNames, kwargs \in PathKwargs :
       Invoke(c, PathApi(c), mode, name, kwargs, "thread")
  \/ \E c \in Tasks, m \in Models : \E u \in Usages(Outer) : Completion(c, m, u)
  \/ \E c \in Tasks : FnReturn(c)
  \/ \E c \in Tasks : FnRaise(c)
  \/ \E c \in Tasks : LogCostOk(c)
  \/ \E c \in Tasks : LogCostFails(c, FALSE)

SpecPaths == Init /\ [][NextPaths]_vars

\* ------------------------------------------------ the capture API alone
\* Main, with the patch installed, calls start_capture, stop_capture and
\* completion calls in any order. stack is what properly scoped aggregation
\* would hold: one dict per scope that is open, the innermost last.
NoScope == "noscope"
Last(q) == q[Len(q)]
Front(q) == SubSeq(q, 1, Len(q) - 1)
CapIdle == nouter < MaxOps
CapRest == <<registry, COST_LOG_ENABLED, patched, pc, call, impl, own, phase,
             pending, outcome, cnt, legacy, dated>>

InitCapture ==
  /\ registry = InitRegistry
  /\ COST_LOG_ENABLED = TRUE
  /\ patched = TRUE
  /\ heap = [r \in {} |-> <<>>]
  /\ tok = [x \in Ctxs |-> NoRef]
  /\ prev = [x \in Ctxs |-> NoRef]
  /\ pc = [c \in Callers |-> "idle"]
  /\ call = [c \in Callers |-> NoCall]
  /\ impl = [c \in Callers |-> "none"]
  /\ own = [c \in Callers |-> <<>>]
  /\ phase = [c \in Callers |-> 0]
  /\ pending = [c \in Callers |-> <<>>]
  /\ outcome = [c \in Callers |-> "none"]
  /\ cnt = [c \in Callers |-> NoCnt]
  /\ legacy = <<>>
  /\ dated = <<>>
  /\ nouter = 0
  /\ ProbeInit

\* start_capture()
CapStart ==
  /\ UNCHANGED <<lock, ep, resp, regs, arg, res, cache>>
  /\ UNCHANGED installs
  /\ CapIdle
  /\ Len(stack) < MaxDepth
  /\ SetStore(start_capture(Store, TaskCtx(Main), Main))
  /\ stack' = Append(stack, <<>>)
  /\ nouter' = nouter + 1
  /\ UNCHANGED ret
  /\ UNCHANGED CapRest

\* a completion call for model m whose response reports usage u; made with
\* no scope open its usage is marked NoScope
CapCall(m, u) ==
  /\ UNCHANGED <<lock, ep, regs, arg, res, cache>>
  /\ UNCHANGED installs
  /\ CapIdle
  /\ LET w == IF stack = <<>> THEN NoScope ELSE Main
     IN /\ SetStore(create(Store, TaskCtx(Main), m, u, w, installs))
        /\ stack' = IF stack = <<>> THEN stack
                    ELSE [stack EXCEPT ![Len(stack)] = DictAdd(@, m, u[1], u[2], w)]
  /\ resp' = [n |-> nouter + 1, stage |-> 0, out |-> "response"]
  /\ nouter' = nouter + 1
  /\ UNCHANGED ret
  /\ UNCHANGED CapRest

\* the statements of _wrapped_create's try body that can raise, in order:
\* 1 getattr(resp, "usage"), 2 the model name, 3 prompt_tokens,
\* 4 completion_tokens, 5 _get_agg(), 6 agg.get(model, (0, 0)), 7 the sums;
\* the assignment agg[model] = ... comes after all of them
Stages == 1..7

\* a wrapper that stores the prompt count as soon as it has read it
wrapped_create_partial(S, x, m, u, w, stage) ==
  IF stage > 3 /\ S.tok[x] # NoRef
  THEN [S EXCEPT !.heap[S.tok[x]] = DictAdd(@, m, u[1], 0, w)]
  ELSE S
\* the store when statement `stage` raises: nothing was assigned yet
wrapped_create_raises(S, x, m, u, w, stage) == S

\* a wrapper that lets the exception through
RaisedToCaller(stage) == "error"
\* except Exception: pass; return resp
Swallowed(stage) == "response"

\* a completion call during which statement `stage` of the wrapper raises
CapCallFails(m, u, stage) ==
  /\ CapIdle
  /\ installs = 1
  /\ SetStore(wrapped_create_raises(Store, TaskCtx(Main), m, u, Main, stage))
  /\ resp' = [n |-> nouter + 1, stage |-> stage, out |-> Swallowed(stage)]
  /\ nouter' = nouter + 1
  /\ UNCHANGED <<stack, ret, installs, lock, ep, regs, arg, res, cache>>
  /\ UNCHANGED CapRest

\* stop_capture(); matched: a scope was open; proper: so it was at every
\* stop_capture so far
CapStop ==
  /\ UNCHANGED <<lock, ep, resp, regs, arg, res, cache>>
  /\ UNCHANGED installs
  /\ CapIdle
  /\ SetStore(stop_capture(Store, TaskCtx(Main), Main))
  /\ ret' = [matched |-> stack # <<>>,
             proper |-> ret.proper /\ stack # <<>>,
             got |-> stop_capture_agg(Store, TaskCtx(Main)),
             want |-> IF stack # <<>> THEN Last(stack) ELSE <<>>]
  /\ stack' = IF stack # <<>> THEN Front(stack) ELSE stack
  /\ nouter' = nouter + 1
  /\ UNCHANGED CapRest

NextCapture ==
  \/ CapStart
  \/ \E m \in Models, u \in Usages(Outer) : CapCall(m, u)
  \/ \E m \in Models, u \in Usages(Outer), stage \in Stages : CapCallFails(m, u, stage)
  \/ CapStop

SpecCapture == InitCapture /\ [][NextCapture]_vars

\* ------------------------------------------- ensure_openai_patched alone
\* The threads main, t1 and t2 call ensure_openai_patched, statement by
\* statement; main, inside a capture scope, makes completion calls meanwhile.
\* ep: "out", "check" (the first `if _patched`), "lock" (waiting for
\* _lock), "recheck" (the second `if _patched`), "install" (the try body up
\* to the assignment of Completions.create), "flag" (_patched = True).
PatchRest == <<registry, COST_LOG_ENABLED, pc, call, impl, phase, pending,
               outcome, legacy, dated, nouter, stack, ret, resp, regs, arg, res, cache>>

InitPatch ==
  /\ registry = InitRegistry
  /\ COST_LOG_ENABLED = TRUE
  /\ patched = FALSE
  /\ LET E == [heap |-> [r \in {} |-> <<>>], tok |-> [x \in Ctxs |-> NoRef],
               prev |-> [x \in Ctxs |-> NoRef]]
         S == start_capture(E, TaskCtx(Main), Main)
     IN heap = S.heap /\ tok = S.tok /\ prev = S.prev
  /\ pc = [c \in Callers |-> "idle"]
  /\ call = [c \in Callers |-> NoCall]
  /\ impl = [c \in Callers |-> "none"]
  /\ own = [c \in Callers |-> <<>>]
  /\ phase = [c \in Callers |-> 0]
  /\ pending = [c \in Callers |-> <<>>]
  /\ outcome = [c \in Callers |-> "none"]
  /\ cnt = [c \in Callers |-> NoCnt]
  /\ legacy = <<>>
  /\ dated = <<>>
  /\ nouter = 0
  /\ ProbeInit

\* a second check that never sees the flag
RecheckSkipped(p) == FALSE
\* the `if _patched: return` inside `with _lock`
Rechecked(p) == p

\* c calls ensure_openai_patched()
EpCall(c) ==
  /\ ep[c] = "out"
  /\ cnt[c].patch < MaxEnsure
  /\ ep' = [ep EXCEPT ![c] = "check"]
  /\ cnt' = [cnt EXCEPT ![c].patch = @ + 1]
  /\ UNCHANGED <<patched, installs, lock, heap, tok, prev, own>>
  /\ UNCHANGED PatchRest

\* if _patched: return
EpCheck(c) ==
  /\ ep[c] = "check"
  /\ ep' = [ep EXCEPT ![c] = IF patched THEN "out" ELSE "lock"]
  /\ UNCHANGED <<patched, installs, lock, heap, tok, prev, own, cnt>>
  /\ UNCHANGED PatchRest

\* with _lock: the lock is acquired
EpAcquire(c) ==
  /\ ep[c] = "lock"
  /\ lock = ""
  /\ lock' = c
  /\ ep' = [ep EXCEPT ![c] = "recheck"]
  /\ UNCHANGED <<patched, installs, heap, tok, prev, own, cnt>>
  /\ UNCHANGED PatchRest

\* if _patched: return (leaving the with block releases the lock)
EpRecheck(c) ==
  /\ ep[c] = "recheck"
  /\ IF Rechecked(patched)
     THEN /\ ep' = [ep EXCEPT ![c] = "out"]
          /\ lock' = ""
     ELSE /\ ep' = [ep EXCEPT ![c] = "install"]
          /\ UNCHANGED lock
  /\ UNCHANGED <<patched, installs, heap, tok, prev, own, cnt>>
  /\ UNCHANGED PatchRest

\* the import succeeds; Completions.create = _wrapped_create, which wraps
\* the create found there
EpInstall(c) ==
  /\ ep[c] = "install"
  /\ installs' = installs + 1
  /\ ep' = [ep EXCEPT ![c] = "flag"]
  /\ UNCHANGED <<patched, lock, heap, tok, prev, own, cnt>>
  /\ UNCHANGED PatchRest

\* the import raises ImportError: nothing is replaced, the flag stays
EpImportError(c) ==
  /\ ep[c] = "install"
  /\ ep' = [ep EXCEPT ![c] = "out"]
  /\ lock' = ""
  /\ UNCHANGED <<patched, installs, heap, tok, prev, own, cnt>>
  /\ UNCHANGED PatchRest

\* _patched = True, and the with block ends
EpFlag(c) ==
  /\ ep[c] = "flag"
  /\ patched' = TRUE
  /\ ep' = [ep EXCEPT ![c] = "out"]
  /\ lock' = ""
  /\ UNCHANGED <<installs, heap, tok, prev, own, cnt>>
  /\ UNCHANGED PatchRest

\* main makes a completion call inside its scope; own records the calls
\* that went through a wrapper
PatchCall(m, u) ==
  /\ cnt[Main].calls < MaxCalls
  /\ SetStore(create(Store, TaskCtx(Main), m, u, Main, installs))
  /\ cnt' = [cnt EXCEPT ![Main].calls = @ + 1]
  /\ own' = [own EXCEPT ![Main] =
               IF installs > 0
               THEN Append(@, [model |-> m, in |-> u[1], out |-> u[2]]) ELSE @]
  /\ UNCHANGED <<patched, installs, lock, ep>>
  /\ UNCHANGED PatchRest

NextPatch ==
  \/ \E c \in Callers : EpCall(c)
  \/ \E c \in Callers : EpCheck(c)
  \/ \E c \in Callers : EpAcquire(c)
  \/ \E c \in Callers : EpRecheck(c)
  \/ \E c \in Callers : EpInstall(c)
  \/ \E c \in Callers : EpImportError(c)
  \/ \E c \in Callers : EpFlag(c)
  \/ \E m \in Models, u \in Usages(Main) : PatchCall(m, u)

SpecPatch == InitPatch /\ [][NextPatch]_vars

\* --------------------------------------------------- the registry alone
\* register_tool is called with any name (omitted, empty, new, taken), for
\* a synchronous or a coroutine function, with or without the "llm" tag
RegNames == {<<>>, <<"">>, <<"echo">>, <<"tool_x">>}
RegFns == {[id |-> "echo", co |-> FALSE], [id |-> "fetch_all", co |-> TRUE]}
RegTags == {{}, {"llm"}}

Register(nm, f, tg) ==
  /\ Len(regs) < Len(InitRegs) + MaxRegs
  /\ registry' = register_tool(registry, Reg(nm, f.id, tg, f.co))
  /\ regs' = Append(regs, Reg(nm, f.id, tg, f.co))
  /\ UNCHANGED <<COST_LOG_ENABLED, patched, heap, tok, prev, pc, call, impl, own,
                 phase, pending, outcome, cnt, legacy, dated, nouter, stack, ret,
                 installs, lock, ep, resp, arg, res, cache>>

NextRegistry == \E nm \in RegNames, f \in RegFns, tg \in RegTags : Register(nm, f, tg)

SpecRegistry == Init /\ [][NextRegistry]_vars

\* ------------------------------------------------- adapters/langchain_tools
\* the keys of _REGISTRY in dict order: a key keeps the position of its first
\* registration, a later registration under the same key replaces the value
RECURSIVE RegistryKeys(_)
RegistryKeys(rs) ==
  IF rs = <<>> THEN <<>>
  ELSE LET r == rs[Len(rs)]
           tool_name == IF r.name = <<>> \/ r.name = <<"">> THEN r.fn ELSE r.name[1]
           front == RegistryKeys(SubSeq(rs, 1, Len(rs) - 1))
       IN IF \E i \in DOMAIN front : front[i] = tool_name THEN front
          ELSE Append(front, tool_name)

\* list(_REGISTRY.values()) as the list the adapter's loop walks
list_tools_values(reg, rs) ==
  LET keys == RegistryKeys(rs) IN [i \in DOMAIN keys |-> reg[keys[i]]]

\* the spec the i-th _run closure uses when it is called: _run reads the loop
\* variable `spec` of the enclosing frame, which every _run shares and which
\* holds the last element once the loop is over
bound_spec(specs, i) == specs[Len(specs)]

\* langchain_tools_from_registry(): per spec, name and args_schema are
\* evaluated in the iteration; func is the closure _run
langchain_tools_from_registry(reg, rs) ==
  LET specs == list_tools_values(reg, rs)
  IN [i \in DOMAIN specs |->
        [name |-> specs[i].name, args_schema |-> specs[i],
         func |-> bound_spec(specs, i)]]

\* tool.run(kwargs): StructuredTool validates kwargs against args_schema, then
\* calls func(**kwargs) = spec.fn(spec.input_model(**kwargs))
run_tool(tool, kwargs) ==
  [tool |-> tool.name, kwargs |-> kwargs,
   input_model |-> IF Validates(tool.args_schema, kwargs)
                   THEN tool.func.name ELSE "",
   fn |-> IF Validates(tool.args_schema, kwargs) /\ Validates(tool.func, kwargs)
          THEN tool.func.name ELSE ""]

AdapterRest ==
  UNCHANGED <<COST_LOG_ENABLED, patched, heap, tok, prev, pc, call, impl, own,
              phase, pending, outcome, cnt, legacy, dated, nouter, stack, ret,
              installs, lock, ep, resp, registry, regs, cache>>

\* tools = langchain_tools_from_registry()
LangchainTools ==
  /\ res' = langchain_tools_from_registry(registry, regs)
  /\ arg' = None
  /\ AdapterRest

\* tools[i].run(kwargs)
RunTool(i, kwargs) ==
  /\ res # None
  /\ i \in DOMAIN res
  /\ arg' = run_tool(res[i], kwargs)
  /\ res' = res
  /\ AdapterRest

NextAdapter ==
  \/ \E nm \in RegNames, f \in RegFns, tg \in RegTags : Register(nm, f, tg)
  \/ LangchainTools
  \/ \E i \in 1..(Len(InitRegs) + MaxRegs), kwargs \in KwargsSet : RunTool(i, kwargs)

SpecAdapter == Init /\ [][NextAdapter]_vars

\* ---------------------------------------------------- log_cost alone
\* log_cost is called directly with events of any timestamp, with the date
\* unset, empty, or set (to the timestamp's day or another)
LogEvents ==
  [ts : 0..3, date : {NoDate, "", "2024-01-01", "2024-01-03"}, tool : {"ask"}]

LogCall(ev) ==
  /\ nouter < MaxLogs
  /\ legacy' = log_cost(Logs, COST_LOG_ENABLED, ev).legacy
  /\ dated' = log_cost(Logs, COST_LOG_ENABLED, ev).dated
  /\ arg' = ev
  /\ nouter' = nouter + 1
  /\ UNCHANGED <<registry, COST_LOG_ENABLED, patched, heap, tok, prev, pc, call,
                 impl, own, phase, pending, outcome, cnt, stack, ret, installs,
                 lock, ep, resp, regs, res, cache>>

NextLog == \E ev \in LogEvents : LogCall(ev)

SpecLog == Init /\ [][NextLog]_vars

\* ------------------------------------------- estimate_openai_cost alone
\* tables _load_pricing_data may return: the two hard-coded ones, and tables
\* read from a data file that lists other models, only gpt-4o, only the
\* fine-tuned name, or none
Tables ==
  {FallbackPricing, ParseFailPricing,
   [m \in {"gpt-4o"} |-> <<25000, 100000>>],
   [m \in {"gpt-4", "gpt-4o-mini"} |-> IF m = "gpt-4" THEN <<300000, 600000>> ELSE <<1500, 6000>>],
   [m \in {"gpt-4o", "ft:gpt-4o-mini:acme"} |->
      IF m = "gpt-4o" THEN <<25000, 100000>> ELSE <<3000, 12000>>],
   <<>>}
TokenCounts == {0, 1000, 2500}

Estimate(pricing, model, i, o) ==
  /\ arg' = [pricing |-> pricing, model |-> model, input_tokens |-> i, output_tokens |-> o]
  /\ res' = estimate(pricing, model, i, o)
  /\ UNCHANGED <<registry, COST_LOG_ENABLED, patched, heap, tok, prev, pc, call,
                 impl, own, phase, pending, outcome, cnt, legacy, dated, nouter,
                 stack, ret, installs, lock, ep, resp, regs, cache>>

NextEstimate ==
  \E pricing \in Tables, model \in ModelNames, i \in TokenCounts, o \in TokenCounts :
    Estimate(pricing, model, i, o)

SpecEstimate == Init /\ [][NextEstimate]_vars

\* ------------------------------------------------- statistics scans
\* date.today()
Today == "2024-01-03"
\* lines a date file may hold: events as log_cost writes them, and text that
\* is no JSON ("{not json", "") or JSON but no object ("null", "42")
EventLines ==
  {[tool |-> "ask", model |-> "gpt-4o", input_tokens |-> 100, output_tokens |-> 20,
    total_cost |-> 5],
   [tool |-> "chat", model |-> "gpt-4o-mini", input_tokens |-> 40, output_tokens |-> 10,
    total_cost |-> 1]}
RawLines == {[raw |-> "{not json"], [raw |-> "null"]}
ScanLines == EventLines \cup RawLines
Days == {0, 1, 2}

\* json.loads(line.strip()): JSONDecodeError for text that is no JSON, else
\* the value, which is a dict only for an object
json_loads(line) ==
  IF "raw" \notin DOMAIN line THEN [exc |-> "none", dict |-> TRUE, value |-> line]
  ELSE IF line.raw \in {"null", "42"} THEN [exc |-> "none", dict |-> FALSE, value |-> line]
  ELSE [exc |-> "JSONDecodeError", dict |-> FALSE, value |-> line]

\* the lines of the files of start_date .. end_date that exist, in date order
RECURSIVE WindowLines(_, _)
WindowLines(files, k) ==
  IF k > Len(Dates) THEN <<>>
  ELSE (IF Dates[k] \in DOMAIN files THEN files[Dates[k]] ELSE <<>>)
       \o WindowLines(files, k + 1)
\* start_date = end_date - timedelta(days), as a position in Dates
StartIndex(days) == IF days >= Len(Dates) THEN 1 ELSE Len(Dates) - days

NoStats ==
  [exc |-> "none", total_calls |-> 0, total_cost |-> 0, total_input_tokens |-> 0,
   total_output_tokens |-> 0, models_used |-> <<>>]
\* one turn of the loop over the lines in get_tool_cost_stats; an exception
\* other than JSONDecodeError ends the scan
stats_line(stats, line, tool_name) ==
  LET j == json_loads(line)
      event == j.value
      mu == stats.models_used
  IN IF stats.exc # "none" THEN stats
     ELSE IF j.exc = "JSONDecodeError" THEN stats
     ELSE IF ~j.dict THEN [stats EXCEPT !.exc = "AttributeError"]
     ELSE IF event.tool # tool_name THEN stats
     ELSE [stats EXCEPT
             !.total_calls = @ + 1,
             !.total_cost = @ + event.total_cost,
             !.total_input_tokens = @ + event.input_tokens,
             !.total_output_tokens = @ + event.output_tokens,
             !.models_used =
               IF event.model \in DOMAIN mu
               THEN [mu EXCEPT ![event.model] =
                       [calls |-> @.calls + 1, cost |-> @.cost + event.total_cost]]
               ELSE (event.model :> [calls |-> 1, cost |-> event.total_cost]) @@ mu]
RECURSIVE stats_lines(_, _, _)
stats_lines(stats, lines, tool_name) ==
  IF lines = <<>> THEN stats
  ELSE stats_lines(stats_line(stats, Head(lines), tool_name), Tail(lines), tool_name)
\* get_tool_cost_stats(tool_name, days); an average is the pair of its
\* numerator and denominator
get_tool_cost_stats(files, tool_name, days) ==
  LET st == stats_lines(NoStats, WindowLines(files, StartIndex(days)), tool_name)
      n == st.total_calls
  IN IF st.exc # "none" THEN [exc |-> st.exc]
     ELSE [exc |-> "none", tool_name |-> tool_name, total_calls |-> n,
           total_cost |-> st.total_cost,
           total_input_tokens |-> st.total_input_tokens,
           total_output_tokens |-> st.total_output_tokens,
           avg_cost_per_call |-> IF n > 0 THEN <<st.total_cost, n>> ELSE <<0, 1>>,
           avg_input_tokens |-> IF n > 0 THEN <<st.total_input_tokens, n>> ELSE <<0, 1>>,
           avg_output_tokens |-> IF n > 0 THEN <<st.total_output_tokens, n>> ELSE <<0, 1>>,
           models_used |-> st.models_used]

\* one turn of the loop over the lines in list_recent_tool_usage
usage_line(acc, line) ==
  LET j == json_loads(line)
      event == j.value
      ts == acc.tool_stats
      old == IF event.tool \in DOMAIN ts THEN ts[event.tool]
             ELSE [calls |-> 0, total_cost |-> 0, total_tokens |-> 0, models |-> {}]
      new == [calls |-> old.calls + 1,
              total_cost |-> old.total_cost + event.total_cost,
              total_tokens |-> old.total_tokens + event.input_tokens + event.output_tokens,
              models |-> old.models \cup {event.model}]
  IN IF acc.exc # "none" THEN acc
     ELSE IF j.exc = "JSONDecodeError" THEN acc
     ELSE IF ~j.dict THEN [acc EXCEPT !.exc = "AttributeError"]
     ELSE [acc EXCEPT !.tool_stats = (event.tool :> new) @@ ts]
RECURSIVE usage_lines(_, _)
usage_lines(acc, lines) ==
  IF lines = <<>> THEN acc
  ELSE usage_lines(usage_line(acc, Head(lines)), Tail(lines))
\* list_recent_tool_usage(days)
list_recent_tool_usage(files, days) ==
  LET acc == usage_lines([exc |-> "none", tool_stats |-> <<>>],
                         WindowLines(files, StartIndex(days)))
      ts == acc.tool_stats
  IN IF acc.exc # "none" THEN [exc |-> acc.exc]
     ELSE [exc |-> "none",
           tool_stats |->
             [t \in DOMAIN ts |->
                [calls |-> ts[t].calls, total_cost |-> ts[t].total_cost,
                 total_tokens |-> ts[t].total_tokens, models |-> ts[t].models,
                 avg_cost |-> <<ts[t].total_cost, ts[t].calls>>,
                 avg_tokens |-> <<ts[t].total_tokens, ts[t].calls>>]]]

ScanRest ==
  <<registry, COST_LOG_ENABLED, patched, heap, tok, prev, pc, call, impl, own,
    phase, pending, outcome, cnt, legacy, stack, ret, installs, lock, ep, resp, regs,
    cache>>

\* something appends a line to the file of a date; what the last scan
\* returned is then out of date
WriteLine(d, line) ==
  /\ nouter < MaxLines
  /\ dated' = AppendTo(dated, d, line)
  /\ nouter' = nouter + 1
  /\ arg' = None
  /\ res' = None
  /\ UNCHANGED ScanRest

GetToolCostStats(tool_name, days) ==
  /\ arg' = [fn |-> "get_tool_cost_stats", tool_name |-> tool_name, days |-> days]
  /\ res' = get_tool_cost_stats(dated, tool_name, days)
  /\ UNCHANGED <<dated, nouter>>
  /\ UNCHANGED ScanRest

ListRecentToolUsage(days) ==
  /\ arg' = [fn |-> "list_recent_tool_usage", tool_name |-> "", days |-> days]
  /\ res' = list_recent_tool_usage(dated, days)
  /\ UNCHANGED <<dated, nouter>>
  /\ UNCHANGED ScanRest

NextScan ==
  \/ \E d \in {Dates[k] : k \in DOMAIN Dates}, line \in ScanLines : WriteLine(d, line)
  \/ \E tool_name \in {"ask", "chat"}, days \in Days : GetToolCostStats(tool_name, days)
  \/ \E days \in Days : ListRecentToolUsage(days)

SpecScan == Init /\ [][NextScan]_vars

\* ---------------------------------------------------------------- cache
\* settings.CACHE_TTL_SECONDS, in seconds of the model's clock
CACHE_TTL_SECONDS == 2
\* cache keys k = (key, args) of web_search: (query, max_results)
CacheKeys == {<<"web_search", <<"langgraph", 5>>>>, <<"web_search", <<"tla", 5>>>>}
\* cleaned result lists
ResultLists == {<<>>, <<"r1">>, <<"r1", "r2">>}
\* Python's None as a cache_get result
Miss == <<"None">>

\* a cache_get that expires an entry one second early
cache_get_early(C, k) ==
  IF ~C.enabled \/ k \notin DOMAIN C.store THEN [cache |-> C, value |-> Miss]
  ELSE IF C.now - C.store[k].ts >= CACHE_TTL_SECONDS
  THEN [cache |-> [C EXCEPT !.store = [j \in DOMAIN C.store \ {k} |-> C.store[j]]],
        value |-> Miss]
  ELSE [cache |-> C, value |-> C.store[k].value]
\* cache_get(key, *args): the value it returns and the cache it leaves
cache_get(C, k) ==
  IF ~C.enabled \/ k \notin DOMAIN C.store THEN [cache |-> C, value |-> Miss]
  ELSE IF C.now - C.store[k].ts > CACHE_TTL_SECONDS
  THEN [cache |-> [C EXCEPT !.store = [j \in DOMAIN C.store \ {k} |-> C.store[j]]],
        value |-> Miss]
  ELSE [cache |-> C, value |-> C.store[k].value]

\* cache_set(key, value, *args)
cache_set(C, k, v) ==
  IF ~C.enabled THEN C
  ELSE [C EXCEPT !.store = (k :> [ts |-> C.now, value |-> v]) @@ C.store,
                 !.lastset = (k :> [ts |-> C.now, value |-> v]) @@ C.lastset]

\* cache_clear()
cache_clear(C) == [C EXCEPT !.store = <<>>, !.lastset = <<>>]

\* web_search(input): a cache hit is returned at once; else the provider is
\* called: when it raises, the error result is returned and nothing stored;
\* else the cleaned results are stored and returned
web_search(C, k, provider_ok, results) ==
  LET g == cache_get(C, k)
  IN IF g.value # Miss
     THEN [cache |-> g.cache, success |-> TRUE, results |-> g.value, provider |-> FALSE]
     ELSE IF ~provider_ok
     THEN [cache |-> g.cache, success |-> FALSE, results |-> <<>>, provider |-> TRUE]
     ELSE [cache |-> cache_set(g.cache, k, results), success |-> TRUE,
           results |-> results, provider |-> TRUE]

CacheRest ==
  <<registry, COST_LOG_ENABLED, patched, heap, tok, prev, pc, call, impl, own,
    phase, pending, outcome, cnt, legacy, dated, nouter, stack, ret, installs,
    lock, ep, resp, regs>>

InitCache ==
  /\ registry = InitRegistry
  /\ COST_LOG_ENABLED = TRUE
  /\ patched = FALSE
  /\ heap = [r \in {} |-> <<>>]
  /\ tok = [x \in Ctxs |-> NoRef]
  /\ prev = [x \in Ctxs |-> NoRef]
  /\ pc = [c \in Callers |-> "idle"]
  /\ call = [c \in Callers |-> NoCall]
  /\ impl = [c \in Callers |-> "none"]
  /\ own = [c \in Callers |-> <<>>]
  /\ phase = [c \in Callers |-> 0]
  /\ pending = [c \in Callers |-> <<>>]
  /\ outcome = [c \in Callers |-> "none"]
  /\ cnt = [c \in Callers |-> NoCnt]
  /\ legacy = <<>>
  /\ dated = <<>>
  /\ nouter = 0
  /\ stack = <<>>
  /\ ret = NoRet
  /\ installs = 0
  /\ lock = ""
  /\ ep = [c \in Callers |-> "out"]
  /\ resp = NoResp
  /\ regs = InitRegs
  /\ arg = None
  /\ res = None
  /\ cache \in {NoCache(e) : e \in BOOLEAN}

\* time.time() advances
Tick ==
  /\ cache.now < MaxTime
  /\ cache' = [cache EXCEPT !.now = @ + 1]
  /\ UNCHANGED <<arg, res>>
  /\ UNCHANGED CacheRest

CacheGet(k) ==
  /\ arg' = [fn |-> "cache_get", key |-> k, at |-> cache.now]
  /\ res' = [value |-> cache_get(cache, k).value]
  /\ cache' = cache_get(cache, k).cache
  /\ UNCHANGED CacheRest

CacheSet(k, v) ==
  /\ arg' = [fn |-> "cache_set", key |-> k, at |-> cache.now]
  /\ res' = [value |-> v]
  /\ cache' = cache_set(cache, k, v)
  /\ UNCHANGED CacheRest

CacheClear ==
  /\ arg' = [fn |-> "cache_clear", key |-> <<>>, at |-> cache.now]
  /\ res' = [value |-> Miss]
  /\ cache' = cache_clear(cache)
  /\ UNCHANGED CacheRest

WebSearch(k, provider_ok, results) ==
  LET w == web_search(cache, k, provider_ok, results)
  IN /\ arg' = [fn |-> "web_search", key |-> k, at |-> cache.now]
     /\ res' = [value |-> w.results, success |-> w.success, provider |-> w.provider]
     /\ cache' = w.cache
     /\ UNCHANGED CacheRest

NextCache ==
  \/ Tick
  \/ \E k \in CacheKeys : CacheGet(k)
  \/ \E k \in CacheKeys, v \in ResultLists : CacheSet(k, v)
  \/ CacheClear
  \/ \E k \in CacheKeys, ok \in BOOLEAN, r \in ResultLists : WebSearch(k, ok, r)

SpecCache == InitCache /\ [][NextCache]_vars

\* ------------------------------------------------------------ properties
\* what the calls in a call log reported for model m, summed
RECURSIVE SumUsage(_, _)
SumUsage(calls, m) ==
  IF calls = <<>> THEN <<0, 0>>
  ELSE LET r == SumUsage(Tail(calls), m)
           h == Head(calls)
       IN IF h.model = m THEN <<r[1] + h.in, r[2] + h.out>> ELSE r

\* the lines of all date files, file after file in the order of Dates
RECURSIVE FilesFrom(_)
FilesFrom(k) ==
  IF k > Len(Dates) THEN <<>>
  ELSE (IF Dates[k] \in DOMAIN dated THEN dated[Dates[k]] ELSE <<>>) \o FilesFrom(k + 1)
DatedLines == FilesFrom(1)
Events == {legacy[i] : i \in DOMAIN legacy} \cup {DatedLines[i] : i \in DOMAIN DatedLines}
LinesBy(log, c) == {i \in DOMAIN log : log[i].by = c}
IsLlm(c) == "llm" \in call[c].spec.tags
Tracked(c) == IsLlm(c) /\ COST_LOG_ENABLED
ModelsCalled(c) == {own[c][i].model : i \in DOMAIN own[c]}
\* e carries for its model exactly what c's own calls reported
CarriesOwn(e, c) ==
  /\ e.model \in ModelsCalled(c)
  /\ <<e.input_tokens, e.output_tokens>> = SumUsage(own[c], e.model)

RaiseLogsThenPropagates ==
  \A c \in Callers :
    (pc[c] = "done" /\ impl[c] = "raised" /\ Tracked(c) /\ own[c] # <<>>) =>
      /\ outcome[c] = "ImplError"
      /\ \A m \in ModelsCalled(c) :
           \E i \in LinesBy(DatedLines, c) : DatedLines[i].model = m /\ CarriesOwn(DatedLines[i], c)

\* C3: for an LLM-tagged invocation with cost logging enabled, log_cost is
\* never called before the invocation's stop_capture, and once the
\* invocation is over its scope has been stopped exactly once and each
\* model's usage was passed to log_cost at most once.
LoggedOnceAfterStop ==
  \A c \in Callers :
    Tracked(c) =>
      /\ cnt[c].log_cost > 0 => cnt[c].stop > 0
      /\ (pc[c] = "done" /\ cnt[c].fn = 1) =>
           /\ cnt[c].stop = 1
           /\ cnt[c].log_cost <= Cardinality(ModelsCalled(c))

\* C4: when the implementation of an LLM-tagged tool raises E and the
\* cost-logging step that follows fails, the caller still receives E.
LoggingNeverMasks ==
  \A c \in Callers :
    (pc[c] = "done" /\ impl[c] = "raised" /\ cnt[c].log_fail > 0) =>
      outcome[c] = "ImplError"

\* C5: the caller only ever sees not-found, validation and implementation
\* errors: when an LLM-tagged implementation returned and the cost-logging
\* step failed, the caller receives the result, and an invocation passes no
\* more usage records to log_cost than its scope held models.
LoggingInvisible ==
  \A c \in Callers :
    /\ outcome[c] \in {"none", "result", "KeyError", "ValidationError", "ImplError"}
    /\ (pc[c] = "done" /\ impl[c] = "returned" /\ cnt[c].log_fail > 0) =>
         /\ outcome[c] = "result"
         /\ cnt[c].log_cost <= Cardinality(ModelsCalled(c))

\* C6: a CostEvent is only ever logged by an invocation of a tool tagged
\* "llm" while cost logging is enabled; an invocation of a tool without the
\* tag never calls ensure_openai_patched, start_capture, stop_capture or
\* log_cost; with cost logging disabled both logs stay empty.
OnlyLlmEmits ==
  /\ \A e \in Events : "llm" \in call[e.by].spec.tags /\ COST_LOG_ENABLED
  /\ \A c \in Callers :
       (pc[c] # "idle" /\ "llm" \notin call[c].spec.tags) =>
         /\ cnt[c].patch = 0 /\ cnt[c].start = 0
         /\ cnt[c].stop = 0 /\ cnt[c].log_cost = 0
  /\ ~COST_LOG_ENABLED => (legacy = <<>> /\ dated = <<>>)

\* an untagged tool returned after its implementation made a completion
\* call that the installed patch recorded in the caller's own open scope,
\* with cost logging enabled: nothing was logged
OnlyLlmEmitsWitness ==
  /\ pc[Main] = "done" /\ outcome[Main] = "result"
  /\ call[Main].name \in {"echo", "fetch"}
  /\ own[Main] # <<>> /\ patched /\ COST_LOG_ENABLED
  /\ tok[TaskCtx(Main)] # NoRef /\ CurrentDict(Store, TaskCtx(Main)) # <<>>
  /\ cnt[Main].patch = 0 /\ cnt[Main].stop = 0
  /\ legacy = <<>> /\ dated = <<>>

\* C7: an invocation of a registered tool with keyword arguments that lack
\* a required field ends with the validation error and nothing else: the
\* implementation is not called, the patch is not installed, no scope is
\* started or stopped, nothing is logged, and the step that raises leaves
\* the registry, the capture state and both logs as they were.
ValidationFirst ==
  /\ [](\A c \in Callers :
          (pc[c] # "idle" /\ call[c].name \in DOMAIN registry
             /\ ~(call[c].spec.required \subseteq call[c].kwargs)) =>
            /\ pc[c] = "done" /\ outcome[c] = "ValidationError"
            /\ impl[c] = "none" /\ cnt[c] = [NoCnt EXCEPT !.validate = 1]
            /\ LinesBy(legacy, c) = {} /\ LinesBy(DatedLines, c) = {})
  /\ [][\A c \in Callers :
          (outcome[c] = "none" /\ outcome'[c] = "ValidationError") =>
            UNCHANGED <<registry, patched, heap, tok, prev, legacy, dated>>]_vars

\* an LLM-tagged tool was invoked without its required field, cost logging
\* enabled, inside an open scope of the caller, the patch not yet installed
ValidationFirstWitness ==
  /\ outcome[Main] = "ValidationError"
  /\ IsLlm(Main) /\ call[Main].kwargs = {} /\ COST_LOG_ENABLED
  /\ ~patched /\ tok[TaskCtx(Main)] # NoRef

\* C8: invoke_tool / invoke_tool_async with a name that is not registered
\* ends with KeyError and nothing else: no validation, no implementation
\* call, no scope, no CostEvent, and the step that raises leaves the
\* registry, the capture state and both logs as they were.
NotFoundNoEffect ==
  /\ [](\A c \in Callers :
          (pc[c] # "idle" /\ call[c].api = "registry"
             /\ call[c].name \notin DOMAIN registry) =>
            /\ pc[c] = "done" /\ outcome[c] = "KeyError"
            /\ impl[c] = "none" /\ cnt[c] = NoCnt /\ own[c] = <<>>
            /\ LinesBy(legacy, c) = {} /\ LinesBy(DatedLines, c) = {})
  /\ [][\A c \in Callers :
          (outcome[c] = "none" /\ outcome'[c] = "KeyError") =>
            UNCHANGED <<registry, patched, heap, tok, prev, legacy, dated>>]_vars

\* invoke_tool_async("nope") raised KeyError inside a scope of the caller
\* that holds usage
NotFoundNoEffectWitness ==
  /\ outcome[Main] = "KeyError"
  /\ call[Main].api = "registry" /\ call[Main].mode = "async"
  /\ call[Main].name = "nope"
  /\ CurrentDict(Store, TaskCtx(Main)) # <<>>

\* C9: an invocation whose arguments pass validation has called the
\* implementation exactly once and hands the caller its outcome: the
\* result when it returned, its exception when it raised.
OnceAndUnchanged ==
  \A c \in Callers :
    (pc[c] = "done" /\ cnt[c].validate = 1
       /\ call[c].spec.required \subseteq call[c].kwargs) =>
      /\ cnt[c].fn = 1
      /\ outcome[c] = (IF impl[c] = "returned" THEN "result" ELSE "ImplError")

ProperlyNested == ret.proper

\* C11: in a properly nested sequence of start_capture / stop_capture
\* calls of any depth, a stop_capture returns exactly the usage accumulated
\* in the scope its start_capture opened, and whenever a scope is open the
\* active dict holds that scope's contents (so the enclosing scope is
\* active again, intact, after an inner stop_capture).
NestingRestores ==
  ProperlyNested =>
    /\ ret.matched => ret.got = ret.want
    /\ stack # <<>> => CurrentDict(Store, TaskCtx(Main)) = Last(stack)

\* C12: usage reported by a completion call made while no scope is open
\* is dropped: it is in the result of no later stop_capture and in no
\* CostEvent.
NoScopeUsageDropped ==
  /\ \A i \in DOMAIN ret.got : NoScope \notin ret.got[i].who
  /\ \A e \in Events : NoScope \notin e.who

\* C13: however many threads call ensure_openai_patched, one after the
\* other or racing, Completions.create is replaced at most once, and the
\* active scope holds the usage of every intercepted completion call
\* exactly once.
PatchedAtMostOnce ==
  /\ installs <= 1
  /\ patched => installs = 1
  /\ \A m \in Models :
       DictGet(CurrentDict(Store, TaskCtx(Main)), m) = SumUsage(own[Main], m)

\* the wrapper is installed and the flag set while main, which had found
\* the flag unset, holds the lock and a task that had found it unset too
\* waits for the lock; main's two intercepted calls are in its scope
PatchedAtMostOnceWitness ==
  /\ patched /\ installs = 1
  /\ \E c \in Tasks : ep[c] = "lock"
  /\ ep[Main] = "recheck"
  /\ Len(own[Main]) = 2
  /\ CurrentDict(Store, TaskCtx(Main)) # <<>>

\* C14: when a statement of the wrapper raises while it inspects a
\* response, the caller of the completion call still receives the response
\* and the call leaves every dict, and the binding of every context, as it
\* was: no entry is partly updated.
WrapperFailureSwallowed ==
  /\ [](resp.out \in {"none", "response"})
  /\ [][(resp'.n # resp.n /\ resp'.stage > 0) =>
          (resp'.out = "response" /\ UNCHANGED <<heap, tok, prev>>)]_vars

\* inside a scope that holds usage, completion_tokens could not be read
\* (statement 4, after prompt_tokens was read): the scope still holds what
\* it held and the caller has its response
WrapperFailureSwallowedWitness ==
  /\ resp.stage = 4 /\ resp.out = "response" /\ resp.n = nouter
  /\ stack # <<>> /\ Last(stack) # <<>>
  /\ CurrentDict(Store, TaskCtx(Main)) = Last(stack)

\* C15: as long as stop_capture has never been called in the task, the
\* scope the last start_capture opened stays the active one and holds
\* everything the calls made in it reported, whatever else happens in the
\* task (further calls, a wrapper that fails).
DirtyScopeStays ==
  (ret = NoRet /\ stack # <<>>) => CurrentDict(Store, TaskCtx(Main)) = Last(stack)

\* one scope, never stopped, holding the sum of two calls; after them a
\* call failed inside the wrapper and the budget of operations is used up
DirtyScopeStaysWitness ==
  /\ ret = NoRet /\ Len(stack) = 1 /\ nouter = MaxOps
  /\ resp.stage > 0
  /\ \E m \in Models : DictGet(CurrentDict(Store, TaskCtx(Main)), m) = <<14, 6>>

\* C16: on the async path a synchronous implementation is run through
\* asyncio.to_thread, exactly once, and a coroutine implementation never
\* is; the blocking path never uses a worker thread. LLM-tagged or not.
SyncOffloaded ==
  \A c \in Callers :
    cnt[c].fn = 1 =>
      cnt[c].to_thread =
        (IF call[c].mode = "async" /\ ~call[c].spec.coroutine THEN 1 ELSE 0)

\* execute_async / invoke_tool_async ran the synchronous LLM-tagged tool
\* on a worker thread, and the call it made there is in the invocation's
\* CostEvent
SyncOffloadedWitness ==
  /\ pc[Main] = "done" /\ outcome[Main] = "result"
  /\ call[Main].mode = "async" /\ call[Main].name = "ask"
  /\ cnt[Main].to_thread = 1
  /\ own[Main] # <<>> /\ Len(legacy) = 1

\* the name a registration goes under: the name argument, or the
\* function's identifier when the argument is omitted or empty
KeyOf(r) == IF r.name \in {<<>>, <<"">>} THEN r.fn ELSE r.name[1]
LastReg(n) == CHOOSE i \in DOMAIN regs :
                /\ KeyOf(regs[i]) = n
                /\ \A j \in DOMAIN regs : KeyOf(regs[j]) = n => j <= i

\* C17: after any sequence of registrations the registered names are the
\* names registered so far; get_tool_spec(name) is the spec of the most
\* recent registration under that name, its name field is that name (the
\* function's identifier when the name was omitted), and list_tools holds
\* exactly one spec with that name.
LastRegistrationWins ==
  /\ DOMAIN registry = {KeyOf(regs[i]) : i \in DOMAIN regs}
  /\ \A n \in DOMAIN registry :
       LET r == regs[LastReg(n)]
       IN /\ get_tool_spec(n).name = n
          /\ get_tool_spec(n).tags = r.tags
          /\ get_tool_spec(n).coroutine = r.coroutine
          /\ Cardinality({t \in list_tools(registry) : t.name = n}) = 1
  /\ Cardinality(list_tools(registry)) = Cardinality(DOMAIN registry)

\* "echo", registered at import as a plain synchronous tool, was registered
\* again twice, last by an unnamed coroutine function echo tagged "llm"
LastRegistrationWinsWitness ==
  /\ Len(regs) = Len(InitRegs) + 2
  /\ regs[Len(regs) - 1].name = <<"echo">> /\ regs[Len(regs) - 1].tags = {}
  /\ regs[Len(regs)].name = <<>> /\ regs[Len(regs)].fn = "echo"
  /\ registry["echo"].tags = {"llm"}
  /\ Cardinality(DOMAIN registry) = 4

\* how often x is a line of log
Count(log, x) == Cardinality({i \in DOMAIN log : log[i] = x})
\* the file an event belongs in: the one named by its date, by the date of
\* its timestamp when it has none
FileOf(ev) == IF ev.date \in {NoDate, ""} THEN Dates[(ev.ts \div 2) + 1] ELSE ev.date

\* C18: a log_cost call that returns, cost logging enabled, appends the
\* event (its date filled in from the timestamp when it was None) as one
\* line to the legacy log and one line to the file of the event's date,
\* and leaves every earlier line and every other file as they were; with
\* cost logging disabled it changes neither log. So the legacy log and the
\* date files together always hold the same lines.
LogCostAppendsBoth ==
  /\ [][nouter' # nouter =>
          LET ev == arg'
              line == IF ev.date = NoDate THEN [ev EXCEPT !.date = FileOf(ev)] ELSE ev
              f == FileOf(ev)
          IN IF COST_LOG_ENABLED
             THEN /\ legacy' = Append(legacy, line)
                  /\ DOMAIN dated' = DOMAIN dated \cup {f}
                  /\ dated'[f] = Append(IF f \in DOMAIN dated THEN dated[f] ELSE <<>>, line)
                  /\ \A g \in DOMAIN dated \ {f} : dated'[g] = dated[g]
             ELSE UNCHANGED <<legacy, dated>>]_vars
  /\ [](\A x \in Events : Count(legacy, x) = Count(DatedLines, x))

\* three events logged: one dated by its timestamp into 2024-01-02, one
\* carrying the date 2024-01-03 with a timestamp of 2024-01-01, one twice
\* the same as the first
LogCostAppendsBothWitness ==
  /\ Len(legacy) = 3
  /\ DOMAIN dated = {"2024-01-02", "2024-01-03"}
  /\ Len(dated["2024-01-02"]) = 2
  /\ dated["2024-01-03"][1].ts = 0
  /\ legacy[1] = legacy[3] /\ legacy[2].date = "2024-01-03"

\* the price pair the estimate of arg is to use
PriceFor(a) ==
  LET t == a.pricing
      hasMini == \E i \in 1..(Len(Spell(a.model)) - 2) :
                   SubSeq(Spell(a.model), i, i + 2) = <<"gpt-4", "o", "-mini">>
      has4o == \E i \in 1..(Len(Spell(a.model)) - 1) :
                 SubSeq(Spell(a.model), i, i + 1) = <<"gpt-4", "o">>
  IN CASE a.model \in DOMAIN t -> t[a.model]
       [] a.model \notin DOMAIN t /\ hasMini /\ "gpt-4o-mini" \in DOMAIN t -> t["gpt-4o-mini"]
       [] a.model \notin DOMAIN t /\ ~hasMini /\ has4o /\ "gpt-4o" \in DOMAIN t -> t["gpt-4o"]
       [] OTHER -> IF "gpt-4o-mini" \in DOMAIN t THEN t["gpt-4o-mini"] ELSE <<150000, 600000>>

\* C19: estimate_openai_cost returns for every model name, listed or not:
\* with the prices of the model's own entry when the table has one, else
\* of the entry of the fragment the name contains ("gpt-4o-mini" tried
\* before "gpt-4o"), else of gpt-4o-mini (the table's entry or the
\* hard-coded default); and total_cost = input_cost + output_cost.
EstimateFallsBack ==
  arg # None =>
    /\ DOMAIN res = {"ic", "oc", "total", "cur"}
    /\ res.ic = arg.input_tokens * (PriceFor(arg)[1] \div 100)
    /\ res.oc = arg.output_tokens * (PriceFor(arg)[2] \div 100)
    /\ res.total = res.ic + res.oc

\* a fine-tuned gpt-4o-mini the table does not list, priced as gpt-4o-mini
\* though the table also lists gpt-4o
EstimateFallsBackWitness ==
  /\ arg # None
  /\ arg.model = "ft:gpt-4o-mini:acme" /\ arg.pricing = FallbackPricing
  /\ arg.input_tokens = 1000 /\ arg.output_tokens = 2500
  /\ res.ic = 15000 /\ res.oc = 150000 /\ res.total = 165000

\* the well-formed event records among the lines of the days of arg
ScannedEvents ==
  LET lines == FilesFrom(IF arg.days >= 3 THEN 1 ELSE 3 - arg.days)
  IN SelectSeq(lines, LAMBDA l : "tool" \in DOMAIN l)
RECURSIVE SumCost(_, _)
SumCost(events, tool_name) ==
  IF events = <<>> THEN 0
  ELSE (IF Head(events).tool = tool_name THEN Head(events).total_cost ELSE 0)
       + SumCost(Tail(events), tool_name)
CallsOf(events, tool_name) ==
  Cardinality({i \in DOMAIN events : events[i].tool = tool_name})

\* C20: whatever the date files hold, get_tool_cost_stats and
\* list_recent_tool_usage return without raising, and their call counts
\* and total costs are those of the well-formed event records of the
\* scanned days alone: a malformed line is skipped, a day without a file
\* counts for nothing.
ScanSkipsMalformed ==
  arg # None =>
    /\ res.exc = "none"
    /\ arg.fn = "get_tool_cost_stats" =>
         /\ res.total_calls = CallsOf(ScannedEvents, arg.tool_name)
         /\ res.total_cost = SumCost(ScannedEvents, arg.tool_name)
    /\ arg.fn = "list_recent_tool_usage" =>
         /\ DOMAIN res.tool_stats = {ScannedEvents[i].tool : i \in DOMAIN ScannedEvents}
         /\ \A t \in DOMAIN res.tool_stats :
              /\ res.tool_stats[t].calls = CallsOf(ScannedEvents, t)
              /\ res.tool_stats[t].total_cost = SumCost(ScannedEvents, t)

\* C21: once an LLM-tagged invocation is over, whether its implementation
\* returned or raised and whether cost logging is enabled or not, the
\* caller's active scope holds what it held when the invocation began: the
\* scope the invocation started has been stopped.
ScopeStoppedAfter ==
  \A c \in Callers :
    (pc[c] = "done" /\ cnt[c].start = 1 /\ cnt[c].log_fail = 0) =>
      CurrentDict(Store, TaskCtx(c)) = call[c].before

ScopeBeginsEmpty ==
  /\ \A c \in Callers :
       (pc[c] = "fn" /\ cnt[c].start = 1) =>
         \A i \in DOMAIN CurrentDict(Store, TaskCtx(c)) :
           CurrentDict(Store, TaskCtx(c))[i].who = {c}
  /\ \A e \in Events : e.who = {e.by}

\* what the lines of a log that caller c wrote say, leaving out tool_params
Logged(log, c) ==
  [i \in LinesBy(log, c) |->
     <<log[i].tool, log[i].model, log[i].input_tokens, log[i].output_tokens>>]
Steps(c) ==
  <<cnt[c].validate, cnt[c].patch, cnt[c].start, cnt[c].fn, cnt[c].to_thread,
    cnt[c].stop, cnt[c].log_cost>>

\* C24: an invocation through invoke_tool / invoke_tool_async and one
\* through the engine's execute / execute_async, of the same tool with the
\* same arguments, whose implementations did the same (same completion
\* calls, both returned or both raised) and whose log files failed equally
\* often, end alike: the same result or exception, the same number of
\* ensure_openai_patched, start_capture, implementation, stop_capture and
\* log_cost steps, and CostEvents with the same tool, model and token counts.
PathsEquivalent ==
  (/\ pc["t1"] = "done" /\ pc["t2"] = "done"
   /\ call["t1"].name = call["t2"].name /\ call["t1"].kwargs = call["t2"].kwargs
   /\ call["t1"].mode = call["t2"].mode
   /\ impl["t1"] = impl["t2"] /\ own["t1"] = own["t2"]
   /\ cnt["t1"].io_fail = cnt["t2"].io_fail) =>
    /\ outcome["t1"] = outcome["t2"]
    /\ Steps("t1") = Steps("t2")
    /\ {Logged(legacy, "t1")[i] : i \in LinesBy(legacy, "t1")}
         = {Logged(legacy, "t2")[i] : i \in LinesBy(legacy, "t2")}
    /\ Cardinality(LinesBy(legacy, "t1")) = Cardinality(LinesBy(legacy, "t2"))
    /\ Cardinality(LinesBy(DatedLines, "t1")) = Cardinality(LinesBy(DatedLines, "t2"))

CancelLeavesScope ==
  \A c \in Callers :
    (pc[c] = "done" /\ impl[c] = "cancelled") =>
      /\ outcome[c] = "CancelledError"
      /\ cnt[c].stop = 0 /\ cnt[c].log_cost = 0
      /\ LinesBy(legacy, c) = {} /\ LinesBy(DatedLines, c) = {}
      /\ "llm" \in call[c].spec.tags =>
           /\ tok[TaskCtx(c)] # NoRef
           /\ \A m \in Models :
                DictGet(CurrentDict(Store, TaskCtx(c)), m) = SumUsage(own[c], m)
           /\ \A i \in DOMAIN CurrentDict(Store, TaskCtx(c)) :
                CurrentDict(Store, TaskCtx(c))[i].who = {c}

\* execute_async of the coroutine tool "chat" was cancelled after one call
\* had reported (100, 20), cost logging enabled, inside a scope of the
\* caller that holds usage: the invocation's scope is the active one
CancelLeavesScopeWitness ==
  /\ pc[Main] = "done" /\ impl[Main] = "cancelled" /\ outcome[Main] = "CancelledError"
  /\ call[Main].api = "engine" /\ call[Main].name = "chat" /\ COST_LOG_ENABLED
  /\ call[Main].before # <<>>
  /\ \E m \in Models : DictGet(CurrentDict(Store, TaskCtx(Main)), m) = <<100, 20>>
  /\ legacy = <<>>

\* the last cache_set of key k since the last cache_clear, when it is no
\* older than the TTL at time t
FreshSet(k, t) ==
  k \in DOMAIN cache.lastset /\ t - cache.lastset[k].ts <= CACHE_TTL_SECONDS

\* C27: with caching enabled, cache_get returns v exactly when the last
\* cache_set of the key stored v, no longer than the TTL ago and with no
\* cache_clear since; otherwise it returns None, and then the key is not in
\* the store (an expired entry was removed). A web_search that finds such
\* a value returns it without calling the provider, and a web_search whose
\* provider fails stores nothing.
CacheGetFresh ==
  /\ [](cache.enabled =>
          /\ (arg # None /\ arg.fn = "cache_get") =>
               /\ res.value = (IF FreshSet(arg.key, arg.at)
                               THEN cache.lastset[arg.key].value ELSE <<"None">>)
               /\ res.value = <<"None">> => arg.key \notin DOMAIN cache.store
          /\ (arg # None /\ arg.fn = "web_search") =>
               /\ FreshSet(arg.key, arg.at)
                    => res.value = cache.lastset[arg.key].value /\ res.success
               /\ ~res.success => res.provider)
  /\ [][(arg' # None /\ arg'.fn = "web_search" /\ cache'.now = cache.now
            /\ cache.enabled) =>
          /\ (~res'.provider <=> FreshSet(arg'.key, cache.now))
          /\ ~res'.success => cache'.lastset = cache.lastset
          /\ ~res'.provider => cache'.lastset = cache.lastset]_<<arg, res, cache>>

\* a second web_search for the same query, two seconds (the TTL) after the
\* first one called the provider, was answered from the cache
CacheGetFreshWitness ==
  /\ cache.enabled /\ arg # None /\ arg.fn = "web_search"
  /\ ~res.provider /\ res.value = <<"r1", "r2">>
  /\ arg.key \in DOMAIN cache.lastset
  /\ arg.at - cache.lastset[arg.key].ts = CACHE_TTL_SECONDS

\* the event records in the files of the arg.days calendar days that end
\* today
TrailingEvents ==
  SelectSeq(FilesFrom(IF arg.days >= Len(Dates) THEN 1 ELSE Len(Dates) - arg.days + 1),
            LAMBDA l : "tool" \in DOMAIN l)

\* C28: a scan with days = N that returns counts exactly the events in the
\* files of the N calendar days ending today (none for N = 0, today's for
\* N = 1), no event of an earlier day, and its average cost is the total
\* divided by the number of calls, 0 when there are none.
TrailingWindow ==
  (arg # None /\ res.exc = "none") =>
    /\ arg.fn = "get_tool_cost_stats" =>
         /\ res.total_calls = CallsOf(TrailingEvents, arg.tool_name)
         /\ res.total_cost = SumCost(TrailingEvents, arg.tool_name)
         /\ res.avg_cost_per_call =
              (IF res.total_calls > 0 THEN <<res.total_cost, res.total_calls>>
               ELSE <<0, 1>>)
    /\ arg.fn = "list_recent_tool_usage" =>
         /\ DOMAIN res.tool_stats = {TrailingEvents[i].tool : i \in DOMAIN TrailingEvents}
         /\ \A t \in DOMAIN res.tool_stats :
              /\ res.tool_stats[t].calls = CallsOf(TrailingEvents, t)
              /\ res.tool_stats[t].total_cost = SumCost(TrailingEvents, t)
              /\ res.tool_stats[t].avg_cost
                   = <<res.tool_stats[t].total_cost, res.tool_stats[t].calls>>

\* C29: for gpt-4o-mini and gpt-4o the estimate is the same whichever
\* hard-coded table _load_pricing_data fell back to (data file absent, or
\* present but not parsable), and for gpt-4o-mini it is also the estimate
\* made from the hard-coded default of the final fallback.
FallbackOneTable ==
  (arg # None /\ "pricing" \in DOMAIN arg
     /\ arg.pricing \in {FallbackPricing, ParseFailPricing}
     /\ arg.model \in {"gpt-4o-mini", "gpt-4o"}) =>
    /\ res = estimate(FallbackPricing, arg.model, arg.input_tokens, arg.output_tokens)
    /\ res = estimate(ParseFailPricing, arg.model, arg.input_tokens, arg.output_tokens)
    /\ arg.model = "gpt-4o-mini" =>
         res = estimate(<<>>, arg.model, arg.input_tokens, arg.output_tokens)

\* C30: for a registry holding two or more tools, a langchain tool run with
\* keyword arguments instantiates the input model and calls the implementation
\* of the registry tool whose name it carries, never another tool's
EachToolRunsItsOwn ==
  (arg # None /\ res # None /\ Len(res) >= 2 /\ arg.input_model # "")
    => (arg.input_model = arg.tool /\ arg.fn \in {arg.tool, ""})

====
